---------------------------- MODULE Spec2Model ----------------------------
(***************************************************************************)
(* Model of 授業カード作成_app.py: the Google-Sheets loader                *)
(* (load_data_from_google_sheet), the Excel template filler                *)
(* (generate_excel_from_form_data) and the two button handlers of the      *)
(* Streamlit script.                                                       *)
(*                                                                         *)
(* A Python str is a sequence of one-character strings.  A character       *)
(* outside ASCII is written by its code point ("U+306F" is 'は').  Header  *)
(* names are only ever compared as a whole, so they are atomic strings;    *)
(* the Japanese names of the source are given next to each definition.     *)
(***************************************************************************)
EXTENDS Integers, Sequences, FiniteSets, TLC

(***************************************************************************)
(* Bounds of the model.                                                    *)
(***************************************************************************)
MaxCols == 2        \* longest header row and longest data row
MaxRows == 2        \* most data rows under the header row
MaxCells == 4       \* most data cells of a sheet with several rows
MaxTicks == 2       \* clock steps the model follows
TickSeconds == 1800 \* seconds that pass in one clock step

(***************************************************************************)
(* Header names of the source.                                             *)
(***************************************************************************)
TIMESTAMP == "timestamp"            \* 'タイムスタンプ'
UNIT_NAME == "unit_name"            \* '単元名'
INTRO_FLOW == "intro_flow"          \* '導入の流れ'
ACTIVITY_FLOW == "activity_flow"    \* '活動の流れ'
REFLECTION_FLOW == "reflection_flow" \* '振り返りの流れ'
TEACHING_POINTS == "teaching_points" \* '指導のポイント'
MATERIAL_PHOTO_URL == "material_photo_url" \* '教材写真URL'
HASHTAG == "hashtag"                \* 'ハッシュタグ'
UNIT_ORDER == "unit_order"          \* '単元内での並び順'
ICT_USE == "ict_use"                \* 'ICT活用有無'
LESSON_TITLE == "lesson_title"      \* '単元内の授業タイトル'
GENERATED_ID == "generated_id"

\* line 58: the headers whose cells are semicolon-separated lists
list_headers == {INTRO_FLOW, ACTIVITY_FLOW, REFLECTION_FLOW, TEACHING_POINTS, MATERIAL_PHOTO_URL}

\* line 68: the default of the ordering field
ORDER_DEFAULT == 9999

(***************************************************************************)
(* Python str operations.                                                  *)
(***************************************************************************)
Whitespace == {" ", "\t", "\n"}

RECURSIVE lstrip(_)
lstrip(s) ==
    IF s # <<>> /\ Head(s) \in Whitespace THEN lstrip(Tail(s)) ELSE s

RECURSIVE rstrip(_)
rstrip(s) ==
    IF s # <<>> /\ s[Len(s)] \in Whitespace THEN rstrip(SubSeq(s, 1, Len(s) - 1)) ELSE s

\* str.strip()
strip(s) == rstrip(lstrip(s))

\* str.split(sep) for a one-character separator: "".split(sep) is [""]
RECURSIVE split(_, _)
split(s, sep) ==
    IF \E i \in 1..Len(s) : s[i] = sep
    THEN LET i == CHOOSE j \in 1..Len(s) : s[j] = sep /\ \A k \in 1..(j - 1) : s[k] # sep
         IN  <<SubSeq(s, 1, i - 1)>> \o split(SubSeq(s, i + 1, Len(s)), sep)
    ELSE <<s>>

\* sep.join(items)
RECURSIVE join(_, _)
join(sep, items) ==
    IF items = <<>> THEN <<>>
    ELSE IF Len(items) = 1 THEN items[1]
    ELSE items[1] \o <<sep>> \o join(sep, Tail(items))

\* str.replace(old, new) for a one-character old
RECURSIVE replace(_, _, _)
replace(s, old, new) ==
    IF s = <<>> THEN <<>>
    ELSE (IF Head(s) = old THEN new ELSE <<Head(s)>>) \o replace(Tail(s), old, new)

Upper == <<"A","B","C","D","E","F","G","H","I","J","K","L","M","N","O","P","Q","R","S","T","U","V","W","X","Y","Z">>
Lower == <<"a","b","c","d","e","f","g","h","i","j","k","l","m","n","o","p","q","r","s","t","u","v","w","x","y","z">>

\* str.lower()
lower(s) ==
    [i \in 1..Len(s) |->
        IF \E k \in 1..Len(Upper) : Upper[k] = s[i]
        THEN Lower[CHOOSE k \in 1..Len(Upper) : Upper[k] = s[i]]
        ELSE s[i]]

Digits == <<"0","1","2","3","4","5","6","7","8","9">>
IsDigit(c) == \E k \in 1..Len(Digits) : Digits[k] = c
DigitVal(c) == (CHOOSE k \in 1..Len(Digits) : Digits[k] = c) - 1

\* str(n) of a non-negative int
RECURSIVE NatToStr(_)
NatToStr(n) ==
    IF n < 10 THEN <<Digits[n + 1]>> ELSE NatToStr(n \div 10) \o <<Digits[(n % 10) + 1]>>

\* str(n) of an int
IntToStr(n) == IF n < 0 THEN <<"-">> \o NatToStr(0 - n) ELSE NatToStr(n)

\* the body of an int literal: digits, single underscores only between digits
IsIntBody(s) ==
    /\ s # <<>>
    /\ \A i \in 1..Len(s) : IsDigit(s[i]) \/ s[i] = "_"
    /\ IsDigit(s[1])
    /\ IsDigit(s[Len(s)])
    /\ \A i \in 1..(Len(s) - 1) : ~(s[i] = "_" /\ s[i + 1] = "_")

RECURSIVE IntBodyVal(_)
IntBodyVal(s) ==
    IF s = <<>> THEN 0
    ELSE IF s[Len(s)] = "_" THEN IntBodyVal(SubSeq(s, 1, Len(s) - 1))
    ELSE 10 * IntBodyVal(SubSeq(s, 1, Len(s) - 1)) + DigitVal(s[Len(s)])

\* int(value): [ok |-> FALSE] stands for ValueError
int(value) ==
    LET v == strip(value)
        signed == v # <<>> /\ v[1] \in {"+", "-"}
        body == IF signed THEN Tail(v) ELSE v
    IN  IF IsIntBody(body)
        THEN [ok |-> TRUE, n |-> IF signed /\ v[1] = "-" THEN 0 - IntBodyVal(body) ELSE IntBodyVal(body)]
        ELSE [ok |-> FALSE, n |-> 0]

(***************************************************************************)
(* Values of a row_dict: a str, a list of str, or an int.                  *)
(***************************************************************************)
StrValue(s) == [kind |-> "str", s |-> s, items |-> <<>>, n |-> 0]
ListValue(items) == [kind |-> "list", s |-> <<>>, items |-> items, n |-> 0]
IntValue(n) == [kind |-> "int", s |-> <<>>, items |-> <<>>, n |-> n]

\* repr of a str inside the str() of a list
repr(s) == <<"'">> \o s \o <<"'">>

RECURSIVE ReprItems(_)
ReprItems(items) ==
    IF items = <<>> THEN <<>>
    ELSE IF Len(items) = 1 THEN repr(items[1])
    ELSE repr(items[1]) \o <<",", " ">> \o ReprItems(Tail(items))

\* str(value), also the formatting of a value inside an f-string
str(value) ==
    CASE value.kind = "str" -> value.s
      [] value.kind = "int" -> IntToStr(value.n)
      [] value.kind = "list" -> <<"[">> \o ReprItems(value.items) \o <<"]">>

\* dict: d[key] = value
Put(d, key, value) == [k \in (DOMAIN d) \cup {key} |-> IF k = key THEN value ELSE d[k]]

\* dict.get(key, default)
get(d, key, default) == IF key \in DOMAIN d THEN d[key] ELSE default

(***************************************************************************)
(* load_data_from_google_sheet: the normalization of the sheet's values.   *)
(***************************************************************************)
\* lines 59 and 62: [item.strip() for item in value.split(sep) if item.strip()] if value else []
RECURSIVE StripNonEmpty(_)
StripNonEmpty(pieces) ==
    IF pieces = <<>> THEN <<>>
    ELSE IF strip(pieces[1]) # <<>>
         THEN <<strip(pieces[1])>> \o StripNonEmpty(Tail(pieces))
         ELSE StripNonEmpty(Tail(pieces))

\* a faulty variant: the empty pieces are kept
split_items_keeping_empty(value, sep) ==
    IF value # <<>>
    THEN [i \in 1..Len(split(value, sep)) |-> strip(split(value, sep)[i])]
    ELSE <<>>

split_items(value, sep) ==
    IF value # <<>> THEN StripNonEmpty(split(value, sep)) ELSE <<>>

\* a faulty variant: another default than 9999
order_value_zero_default(value) ==
    IF int(value).ok THEN IntValue(int(value).n) ELSE IntValue(0)

\* lines 65-68: try int(value) except (ValueError, TypeError): 9999
order_value(value) ==
    IF int(value).ok THEN IntValue(int(value).n) ELSE IntValue(ORDER_DEFAULT)

TRUE_TOKENS == { <<"t","r","u","e">>, <<"U+306F","U+3044">> }            \* 'true', 'はい'
FALSE_TOKENS == { <<"f","a","l","s","e">>, <<"U+3044","U+3044","U+3048">> } \* 'false', 'いいえ'
ARI == <<"U+3042","U+308A">>   \* 'あり'
NASHI == <<"U+306A","U+3057">> \* 'なし'

\* lines 71-77
ict_value(value) ==
    IF lower(value) \in TRUE_TOKENS THEN StrValue(ARI)
    ELSE IF lower(value) \in FALSE_TOKENS THEN StrValue(NASHI)
    ELSE StrValue(value)

\* lines 55-81: the value stored for headers[i]
cell_value(header, row, i) ==
    IF i <= Len(row)
    THEN LET value == strip(row[i])
         IN  IF header \in list_headers THEN ListValue(split_items(value, ";"))
             ELSE IF header = HASHTAG THEN ListValue(split_items(value, ","))
             ELSE IF header = UNIT_ORDER THEN order_value(value)
             ELSE IF header = ICT_USE THEN ict_value(value)
             ELSE StrValue(value)
    ELSE StrValue(<<>>)

\* lines 53-81: row_dict after the first i headers
RECURSIVE fill_row_dict(_, _, _)
fill_row_dict(headers, row, i) ==
    IF i = 0 THEN <<>>
    ELSE Put(fill_row_dict(headers, row, i - 1), headers[i], cell_value(headers[i], row, i))

\* a faulty variant: any(cell for cell in row), whitespace counts as content
row_has_content_unstripped(row) == \E i \in 1..Len(row) : row[i] # <<>>

\* line 52: any(cell.strip() for cell in row)
row_has_content(row) == \E i \in 1..Len(row) : strip(row[i]) # <<>>

\* line 85: row_dict.get('タイムスタンプ', f"no_timestamp_{len(processed_records)}")
NO_TIMESTAMP == <<"n","o","_","t","i","m","e","s","t","a","m","p","_">>
\* a faulty variant: an empty timestamp falls back like an absent one
timestamp_or_fallback(row_dict, n) ==
    IF TIMESTAMP \in DOMAIN row_dict /\ str(row_dict[TIMESTAMP]) # <<>>
    THEN str(row_dict[TIMESTAMP])
    ELSE NO_TIMESTAMP \o IntToStr(n)

timestamp_of(row_dict, n) ==
    str(get(row_dict, TIMESTAMP, StrValue(NO_TIMESTAMP \o IntToStr(n))))

\* a faulty variant: the id without the index
generated_id_without_index(timestamp, n) == <<"g","s","_">> \o timestamp

\* line 86: f"gs_{timestamp}_{len(processed_records)}"
generated_id(timestamp, n) == <<"g","s","_">> \o timestamp \o <<"_">> \o IntToStr(n)

\* lines 53-87: the record of one row, n records having been appended before it
make_record(headers, row, n) ==
    LET row_dict == fill_row_dict(headers, row, Len(headers))
    IN  Put(row_dict, GENERATED_ID, StrValue(generated_id(timestamp_of(row_dict, n), n)))

\* lines 50-87: the loop over the data rows
RECURSIVE process_rows(_, _, _)
process_rows(headers, records, processed_records) ==
    IF records = <<>> THEN processed_records
    ELSE IF row_has_content(Head(records))
         THEN process_rows(headers, Tail(records),
                  Append(processed_records, make_record(headers, Head(records), Len(processed_records))))
         ELSE process_rows(headers, Tail(records), processed_records)

\* a faulty variant: an empty header row returns [] as an empty sheet does
normalize_requiring_headers(data) ==
    IF data = <<>> \/ Head(data) = <<>> THEN <<>>
    ELSE process_rows(Head(data), Tail(data), <<>>)

\* lines 43-89: from worksheet.get_all_values() to the returned list
normalize(data) ==
    IF data = <<>> THEN <<>>
    ELSE process_rows(Head(data), Tail(data), <<>>)

(***************************************************************************)
(* generate_excel_from_form_data: the template filler.                     *)
(***************************************************************************)
\* lines 117-143: form field -> Excel cell, in the order of the dict
cell_mappings == <<
    <<TIMESTAMP, "A2">>,
    <<UNIT_NAME, "B2">>,
    <<"catch_copy", "C2">>,          \* 'キャッチコピー'
    <<"aim", "D2">>,                 \* 'ねらい'
    <<"target_grade", "E2">>,        \* '対象学年'
    <<"disability_type", "F2">>,     \* '障害種別'
    <<"duration", "G2">>,            \* '時間'
    <<"materials", "H2">>,           \* '準備物'
    <<INTRO_FLOW, "I2">>,
    <<ACTIVITY_FLOW, "J2">>,
    <<REFLECTION_FLOW, "K2">>,
    <<TEACHING_POINTS, "L2">>,
    <<HASHTAG, "M2">>,
    <<"main_image_url", "N2">>,      \* 'メイン画像URL'
    <<MATERIAL_PHOTO_URL, "O2">>,
    <<"video_link", "P2">>,          \* '動画リンク'
    <<"plan_word_url", "Q2">>,       \* '指導案WordファイルURL'
    <<"plan_pdf_url", "R2">>,        \* '指導案PDFファイルURL'
    <<"slides_ppt_url", "S2">>,      \* '授業資料PowerPointファイルURL'
    <<"eval_excel_url", "T2">>,      \* '評価シートExcelファイルURL'
    <<ICT_USE, "U2">>,
    <<"subject", "V2">>,             \* '教科'
    <<"group_unit", "W2">>,          \* '学習集団の単位'
    <<LESSON_TITLE, "X2">>,
    <<UNIT_ORDER, "Y2">> >>

\* a faulty variant: every list is joined with ';'
cell_text_semicolon_only(form_field, form_data) ==
    LET value == get(form_data, form_field, StrValue(<<>>))
    IN  IF value.kind = "list" THEN join(";", value.items) ELSE str(value)

\* lines 146-154: the string assigned to the cell of form_field
cell_text(form_field, form_data) ==
    LET value == get(form_data, form_field, StrValue(<<>>))
    IN  IF value.kind = "list"
        THEN IF form_field = HASHTAG THEN join(",", value.items) ELSE join(";", value.items)
        ELSE str(value)

\* lines 145-154: the assignments ws[excel_cell] = ... of the first k mappings
ws_writes(form_data, k) ==
    [j \in 1..k |-> [cell |-> cell_mappings[j][2], text |-> cell_text(cell_mappings[j][1], form_data)]]

\* the mapped cells of the worksheet after a sequence of assignments; a
\* cell never assigned keeps the template's content
TEMPLATE_CONTENT == <<"U+0000">>
template_ws == [c \in {cell_mappings[j][2] : j \in 1..Len(cell_mappings)} |-> TEMPLATE_CONTENT]
RECURSIVE ws_after(_)
ws_after(writes) ==
    IF writes = <<>> THEN template_ws
    ELSE [ws_after(SubSeq(writes, 1, Len(writes) - 1))
             EXCEPT ![writes[Len(writes)].cell] = writes[Len(writes)].text]

\* the return values: None, or the bytes of the saved workbook
None == [some |-> FALSE, ws |-> <<>>]
Bytes(ws) == [some |-> TRUE, ws |-> ws]

\* what can go wrong inside the try block of lines 103-158
NoFault == [at |-> "none", k |-> 0]
FillFaults ==
    {NoFault, [at |-> "load", k |-> 0], [at |-> "save", k |-> 0]}
        \cup {[at |-> "write", k |-> k] : k \in {1, Len(cell_mappings)}}

\* a faulty variant: after a failed assignment the buffer is returned as it is
generate_excel_returning_partial(form_data, template_exists, fault) ==
    IF ~template_exists
    THEN [excel |-> None, error |-> "TemplateMissing", cause |-> "FileNotFoundError"]
    ELSE IF fault.at = "load"
    THEN [excel |-> None, error |-> "WriteError", cause |-> "load"]
    ELSE IF fault.at = "write"
    THEN [excel |-> Bytes(ws_after(ws_writes(form_data, fault.k - 1))),
          error |-> "WriteError", cause |-> "write"]
    ELSE IF fault.at = "save"
    THEN [excel |-> None, error |-> "WriteError", cause |-> "save"]
    ELSE [excel |-> Bytes(ws_after(ws_writes(form_data, Len(cell_mappings)))),
          error |-> "none", cause |-> "none"]

\* lines 101-166: excel is the returned value, error the st.error shown,
\* cause the exception it reports
generate_excel_from_form_data(form_data, template_exists, fault) ==
    IF ~template_exists
    THEN [excel |-> None, error |-> "TemplateMissing", cause |-> "FileNotFoundError"]
    ELSE IF fault.at = "load"
    THEN [excel |-> None, error |-> "WriteError", cause |-> "load"]
    ELSE IF fault.at = "write"
    THEN [excel |-> None, error |-> "WriteError", cause |-> "write"]
    ELSE IF fault.at = "save"
    THEN [excel |-> None, error |-> "WriteError", cause |-> "save"]
    ELSE [excel |-> Bytes(ws_after(ws_writes(form_data, Len(cell_mappings)))),
          error |-> "none", cause |-> "none"]

\* lines 233-235: the name of the offered file
CARD == <<"U+6388","U+696D","U+30AB","U+30FC","U+30C9">>   \* '授業カード'
download_filename_of(entry) ==
    LET unit_name_for_filename ==
            replace(replace(str(get(entry, UNIT_NAME, StrValue(CARD))), " ", <<"_">>), "/", <<"_">>)
        timestamp_for_filename ==
            replace(split(str(get(entry, TIMESTAMP, StrValue(<<>>))), " ")[1], "-", <<>>)
    IN  unit_name_for_filename \o <<"_">> \o CARD \o <<"_">> \o timestamp_for_filename
            \o <<".", "x", "l", "s", "m">>

(***************************************************************************)
(* The memoization of st.cache_data(ttl=3600) around the loader.           *)
(***************************************************************************)
ttl == 3600

NoEntry == [has |-> FALSE, value |-> <<>>, at |-> 0]

\* a faulty variant: the memoized entry survives the press
clear_nothing(c) == c

\* load_data_from_google_sheet.clear()
clear(c) == NoEntry

\* the entry is served while it is younger than ttl
is_fresh(c, t) == c.has /\ t - c.at < ttl

\* lines 19-98: a call of the memoized loader at time t.  source_fault is
\* what goes wrong before the values are read: "ConfigMissing" is the
\* st.stop() of line 32, "SourceReadError" an exception caught at lines
\* 91-97; both end the script run and nothing is memoized.
load_data_from_google_sheet(c, t, sheet, source_fault) ==
    IF is_fresh(c, t)
    THEN [outcome |-> "ok", value |-> c.value, cache |-> c]
    ELSE IF source_fault # "none"
    THEN [outcome |-> source_fault, value |-> <<>>, cache |-> c]
    ELSE LET returned(value) ==
                 [outcome |-> "ok", value |-> value,
                  cache |-> [has |-> TRUE, value |-> value, at |-> t]]
         IN  returned(normalize(sheet))

(***************************************************************************)
(* The state of the application.                                           *)
(***************************************************************************)
VARIABLES
    data,                       \* what worksheet.get_all_values() returns now
    now,                        \* the clock, in seconds
    cache,                      \* the entry memoized by st.cache_data
    pressed_data,               \* the sheet as it was at the last reload press
    pressed_cache,              \* the memoized entry as it was at that press
    load_outcome,               \* how the load of this script run ended
    sheet_lesson_data_records,  \* line 195: the list returned in this run
    google_form_records,        \* st.session_state.google_form_records
    selected_index,             \* line 218: the selectbox
    template_exists,            \* whether '授業カード.xlsm' is there
    fill_fault,                 \* what befell the fill of this run ("idle": no fill)
    fill_error,                 \* the st.error of the fill of this run
    fill_cause,                 \* the exception that st.error reports
    excel_data,                 \* line 230
    download_offered,           \* line 237: st.download_button shown
    download_filename           \* line 235

vars == <<data, now, cache, pressed_data, pressed_cache, load_outcome, sheet_lesson_data_records,
          google_form_records, selected_index, template_exists, fill_fault,
          fill_error, fill_cause, excel_data, download_offered, download_filename>>

\* all sequences over S of length at most n
SeqsUpTo(S, n) == UNION {[1..k -> S] : k \in 0..n}

RECURSIVE CellCount(_)
CellCount(rows) == IF rows = <<>> THEN 0 ELSE Len(Head(rows)) + CellCount(Tail(rows))

\* sheets of several rows: timestamps that are empty, blank, equal to one
\* another or made of digits and underscores
NormHeaders == {TIMESTAMP, UNIT_NAME, GENERATED_ID}
NormCells == { <<>>, <<" ">>, <<"1", "_", "1">> }
NormSheets ==
    {<<>>} \cup
    {<<h>> \o rows : h \in SeqsUpTo(NormHeaders, MaxCols),
                     rows \in {r \in SeqsUpTo(SeqsUpTo(NormCells, MaxCols), MaxRows) :
                                  CellCount(r) <= MaxCells}}

\* sheets of one data row: every kind of header, cells that exercise the
\* coercions
RowHeaders == list_headers \cup {HASHTAG, UNIT_ORDER, UNIT_NAME}
RowCells == {
    <<>>,
    <<"\t", "-", "1", "_", "2", " ">>,
    <<" ", "a", ";", " ", ",", "b", ";">>,
    <<";">> }
RowSheets ==
    {<<h, row>> : h \in SeqsUpTo(RowHeaders, MaxCols), row \in SeqsUpTo(RowCells, MaxCols)}

\* the sheets the running application sees
AppHeader == <<TIMESTAMP, UNIT_NAME, HASHTAG, ICT_USE>>
BlankRow == << <<>>, <<" ">> >>
Row2024 == << <<"2","0","2","4","-","0","1","-","0","1"," ","1","0",":","0","0">>,
              <<"a"," ","b","/","c">>, <<"x",","," ","y">>, <<"T","r","u","e">> >>
RowShort == << <<>>, <<"d">> >>
AppSheets == {
    <<>>,
    <<AppHeader>>,
    <<AppHeader, BlankRow>>,
    <<AppHeader, Row2024>>,
    <<AppHeader, RowShort, BlankRow, Row2024>> }

InitWith(sheets) ==
    /\ data \in sheets
    /\ now = 0
    /\ cache = NoEntry
    /\ pressed_data = <<>>
    /\ pressed_cache = NoEntry
    /\ load_outcome = "none"
    /\ sheet_lesson_data_records = <<>>
    /\ google_form_records = [set |-> FALSE, records |-> <<>>]
    /\ selected_index = 0
    /\ template_exists \in BOOLEAN
    /\ fill_fault = "idle"
    /\ fill_error = "none"
    /\ fill_cause = "none"
    /\ excel_data = None
    /\ download_offered = FALSE
    /\ download_filename = <<>>

Init == InitWith(AppSheets)
InitNorm == InitWith(NormSheets) /\ template_exists
InitRow == InitWith(RowSheets) /\ template_exists

\* a script run that does not reach line 230 shows nothing of a fill
NoFillThisRun ==
    /\ fill_fault' = "idle"
    /\ fill_error' = "none"
    /\ fill_cause' = "none"
    /\ excel_data' = None
    /\ download_offered' = FALSE
    /\ download_filename' = <<>>

\* a script run in which the reload button is not pressed loads nothing
NoLoadThisRun ==
    /\ load_outcome' = "none"
    /\ sheet_lesson_data_records' = <<>>
    /\ UNCHANGED <<cache, pressed_data, pressed_cache>>

\* line 218: the selectbox keeps its value while it is one of the options
selectbox(index, records) == IF index < Len(records) THEN index ELSE 0

\* lines 193-203: a script run with the reload button pressed
PressReload(source_fault) ==
    \E loaded \in {load_data_from_google_sheet(clear(cache), now, data, source_fault)} :
        /\ cache' = loaded.cache
        /\ pressed_data' = data
        /\ pressed_cache' = cache
        /\ load_outcome' = loaded.outcome
        /\ sheet_lesson_data_records' = loaded.value
        /\ google_form_records' =
               IF loaded.outcome = "ok" /\ loaded.value # <<>>
               THEN [set |-> TRUE, records |-> loaded.value]
               ELSE google_form_records
        /\ selected_index' =
               IF loaded.outcome = "ok"
               THEN selectbox(selected_index, google_form_records'.records)
               ELSE selected_index
        /\ NoFillThisRun
        /\ UNCHANGED <<data, now, template_exists>>

ReloadLoads == PressReload("none")
ReloadConfigMissing == PressReload("ConfigMissing")
ReloadSourceReadError == PressReload("SourceReadError")

\* lines 218-223: a script run after the user picks another entry
SelectEntry ==
    \E i \in 0..(Len(google_form_records.records) - 1) :
        /\ google_form_records.set
        /\ i # selected_index
        /\ selected_index' = i
        /\ NoLoadThisRun
        /\ NoFillThisRun
        /\ UNCHANGED <<data, now, google_form_records, template_exists>>

\* lines 206-246: a script run with the download button pressed
PressDownload(fault) ==
    /\ google_form_records.set
    /\ google_form_records.records # <<>>
    /\ \E selected_form_entry \in {google_form_records.records[selected_index + 1]} :
       \E filled \in {generate_excel_from_form_data(selected_form_entry, template_exists, fault)} :
           /\ excel_data' = filled.excel
           /\ fill_error' = filled.error
           /\ fill_cause' = filled.cause
           /\ fill_fault' = IF template_exists THEN fault.at ELSE "missing"
           /\ download_offered' = filled.excel.some
           /\ download_filename' =
                  IF filled.excel.some THEN download_filename_of(selected_form_entry) ELSE <<>>
    /\ NoLoadThisRun
    /\ UNCHANGED <<data, now, google_form_records, selected_index, template_exists>>

DownloadSucceeds == PressDownload(NoFault)
DownloadFails == \E fault \in FillFaults \ {NoFault} : PressDownload(fault)

\* the form's answers change in the spreadsheet
EditSheet ==
    /\ data' \in AppSheets \ {data}
    /\ UNCHANGED <<now, cache, pressed_data, pressed_cache, load_outcome, sheet_lesson_data_records,
                   google_form_records, selected_index, template_exists, fill_fault,
                   fill_error, fill_cause, excel_data, download_offered, download_filename>>

\* the template file is put in place or taken away
ToggleTemplate ==
    /\ template_exists' = ~template_exists
    /\ UNCHANGED <<data, now, cache, pressed_data, pressed_cache, load_outcome, sheet_lesson_data_records,
                   google_form_records, selected_index, fill_fault,
                   fill_error, fill_cause, excel_data, download_offered, download_filename>>

\* time passes
Tick ==
    /\ now < MaxTicks * TickSeconds
    /\ now' = now + TickSeconds
    /\ UNCHANGED <<data, cache, pressed_data, pressed_cache, load_outcome, sheet_lesson_data_records,
                   google_form_records, selected_index, template_exists, fill_fault,
                   fill_error, fill_cause, excel_data, download_offered, download_filename>>

Next ==
    \/ ReloadLoads
    \/ ReloadConfigMissing
    \/ ReloadSourceReadError
    \/ SelectEntry
    \/ DownloadSucceeds
    \/ DownloadFails
    \/ EditSheet
    \/ ToggleTemplate
    \/ Tick

Spec == Init /\ [][Next]_vars

\* the loader alone, applied to every sheet of NormSheets
NextNorm == ReloadLoads
SpecNorm == InitNorm /\ [][NextNorm]_vars

\* the loader and the filler, applied to every sheet of RowSheets
NextRow ==
    \/ ReloadLoads
    \/ DownloadSucceeds
SpecRow == InitRow /\ [][NextRow]_vars

(***************************************************************************)
(* What the claims speak of.                                               *)
(***************************************************************************)
\* a load has returned in this script run
Loaded == load_outcome = "ok"
LoadedSheet == Loaded /\ pressed_data # <<>>
InHeaders == Head(pressed_data)
InRows == Tail(pressed_data)
Out == sheet_lesson_data_records

\* every cell of the row is empty or made of whitespace only
IsBlank(row) == \A i \in 1..Len(row) : \A j \in 1..Len(row[i]) : row[i][j] \in Whitespace

\* the position among the data rows of the k-th row that is not blank
KeptRow(k) ==
    CHOOSE i \in 1..Len(InRows) :
        /\ ~IsBlank(InRows[i])
        /\ Cardinality({j \in 1..(i - 1) : ~IsBlank(InRows[j])}) = k - 1

\* the part of an id after its last underscore
RECURSIVE AfterLastUnderscore(_)
AfterLastUnderscore(id) ==
    IF id = <<>> \/ id[Len(id)] = "_" THEN <<>>
    ELSE Append(AfterLastUnderscore(SubSeq(id, 1, Len(id) - 1)), id[Len(id)])

\* the column that decides the record's value for header h: the last one
\* bearing that name (0: no column bears it)
ColumnOf(h) ==
    IF \E i \in 1..Len(InHeaders) : InHeaders[i] = h
    THEN CHOOSE i \in 1..Len(InHeaders) :
             InHeaders[i] = h /\ \A j \in (i + 1)..Len(InHeaders) : InHeaders[j] # h
    ELSE 0

GS == <<"g", "s", "_">>

\* C1: the load drops exactly the blank rows: as many records as rows that
\* are not blank, the k-th record made from the k-th such row, and the
\* index at the end of its generated_id is k (counted from 0).
C1_BlankRowsDropped ==
    LoadedSheet =>
        /\ Len(Out) = Len(InRows) - Cardinality({i \in 1..Len(InRows) : IsBlank(InRows[i])})
        /\ \A k \in 1..Len(Out) :
            /\ AfterLastUnderscore(Out[k][GENERATED_ID].s) = IntToStr(k - 1)
            /\ \A h \in (DOMAIN Out[k]) \ {GENERATED_ID} :
                   Out[k][h] = cell_value(h, InRows[KeptRow(k)], ColumnOf(h))

\* C1 witness: a blank row (whitespace only) above a row that is kept
C1_Witness ==
    /\ LoadedSheet
    /\ \E i \in 1..Len(InRows) : \E j \in (i + 1)..Len(InRows) :
           /\ IsBlank(InRows[i]) /\ InRows[i] # <<>> /\ \E c \in 1..Len(InRows[i]) : InRows[i][c] # <<>>
           /\ ~IsBlank(InRows[j])
    /\ Len(Out) >= 1

\* C2 as claimed: the id is "gs_" + t + "_" + p, where t is the timestamp
\* value when the header exists and the value is not empty, and
\* "no_timestamp_" + p when the header is absent or the value is empty.
C2_AsClaimed ==
    LoadedSheet =>
        \A k \in 1..Len(Out) :
            LET p == IntToStr(k - 1)
                t == IF TIMESTAMP \in DOMAIN Out[k] /\ Out[k][TIMESTAMP].s # <<>>
                     THEN Out[k][TIMESTAMP].s
                     ELSE NO_TIMESTAMP \o p
            IN  Out[k][GENERATED_ID] = StrValue(GS \o t \o <<"_">> \o p)

\* C2 amended: t is the record's timestamp value whenever the header exists,
\* the empty string included; "no_timestamp_" + p only when no header is
\* named 'タイムスタンプ'.
C2_GeneratedId ==
    LoadedSheet =>
        \A k \in 1..Len(Out) :
            LET p == IntToStr(k - 1)
                t == IF \E i \in 1..Len(InHeaders) : InHeaders[i] = TIMESTAMP
                     THEN Out[k][TIMESTAMP].s
                     ELSE NO_TIMESTAMP \o p
            IN  Out[k][GENERATED_ID] = StrValue(GS \o t \o <<"_">> \o p)

\* C2 witness: a record whose timestamp cell is there and empty, after
\* another record
C2_Witness ==
    /\ LoadedSheet
    /\ Len(Out) = 2
    /\ TIMESTAMP \in DOMAIN Out[2]
    /\ Out[2][TIMESTAMP].s = <<>>
    /\ Len(InRows[KeptRow(2)]) >= ColumnOf(TIMESTAMP)

\* C3: no two records of one load have the same generated_id.
C3_UniqueIds ==
    Loaded =>
        \A k \in 1..Len(Out) : \A m \in 1..Len(Out) :
            k # m => Out[k][GENERATED_ID] # Out[m][GENERATED_ID]

\* C3 witness: two records with the same timestamp, made of digits and an
\* underscore, under a header row that has a column named generated_id
C3_Witness ==
    /\ LoadedSheet
    /\ Len(Out) >= 2
    /\ \E i \in 1..Len(InHeaders) : InHeaders[i] = GENERATED_ID
    /\ TIMESTAMP \in DOMAIN Out[1]
    /\ Out[1][TIMESTAMP] = Out[2][TIMESTAMP]
    /\ Out[1][TIMESTAMP].s = <<"1", "_", "1">>

\* the cell of the k-th record's row in the column of header h, and whether
\* the row reaches that column
RowReaches(k, h) == ColumnOf(h) <= Len(InRows[KeptRow(k)])
RawCell(k, h) == IF RowReaches(k, h) THEN InRows[KeptRow(k)][ColumnOf(h)] ELSE <<>>

\* C4 as claimed: the ordering field is the integer the trimmed cell
\* denotes, and 9999 when the cell is no integer, is empty or is missing
\* because the row is shorter than the header row.
C4_AsClaimed ==
    LoadedSheet =>
        \A k \in 1..Len(Out) :
            UNIT_ORDER \in DOMAIN Out[k] =>
                Out[k][UNIT_ORDER] =
                    IF RowReaches(k, UNIT_ORDER) /\ int(RawCell(k, UNIT_ORDER)).ok
                    THEN IntValue(int(RawCell(k, UNIT_ORDER)).n)
                    ELSE IntValue(9999)

\* C4 amended: for a row that reaches the column of '単元内での並び順' the
\* value is the integer the trimmed cell denotes, or 9999 when the cell is
\* empty or no integer; for a row too short to reach it the value is the
\* empty string.
C4_OrderField ==
    LoadedSheet =>
        \A k \in 1..Len(Out) :
            UNIT_ORDER \in DOMAIN Out[k] =>
                Out[k][UNIT_ORDER] =
                    IF ~RowReaches(k, UNIT_ORDER) THEN StrValue(<<>>)
                    ELSE IF int(RawCell(k, UNIT_ORDER)).ok
                    THEN IntValue(int(RawCell(k, UNIT_ORDER)).n)
                    ELSE IntValue(9999)

\* C4 witness: "\t-1_2 " is read as -12, beside a cell that is no integer
C4_Witness ==
    /\ LoadedSheet
    /\ Len(Out) = 1
    /\ InHeaders = <<UNIT_ORDER, UNIT_ORDER>>
    /\ InRows[1] = << <<";">>, <<"\t", "-", "1", "_", "2", " ">> >>
    /\ Out[1][UNIT_ORDER] = IntValue(0 - 12)

\* s without the whitespace at its two ends
Trimmed(s) ==
    LET inked == {i \in 1..Len(s) : s[i] \notin Whitespace}
    IN  IF inked = {} THEN <<>>
        ELSE SubSeq(s, CHOOSE i \in inked : \A j \in inked : i <= j,
                       CHOOSE i \in inked : \A j \in inked : j <= i)

\* where the n-th delimiter of raw stands (0 before the first piece,
\* Len(raw) + 1 after the last)
DelimAt(raw, sep) == {i \in 1..Len(raw) : raw[i] = sep}
NthDelim(raw, sep, n) ==
    IF n = 0 THEN 0
    ELSE IF n > Cardinality(DelimAt(raw, sep)) THEN Len(raw) + 1
    ELSE CHOOSE i \in DelimAt(raw, sep) :
             Cardinality({j \in DelimAt(raw, sep) : j < i}) = n - 1

NotEmpty(s) == s # <<>>

\* raw cut at every delimiter, each piece trimmed, the empty ones left out
TrimmedPieces(raw, sep) ==
    SelectSeq([n \in 1..(Cardinality(DelimAt(raw, sep)) + 1) |->
                  Trimmed(SubSeq(raw, NthDelim(raw, sep, n - 1) + 1, NthDelim(raw, sep, n) - 1))],
              NotEmpty)

DelimiterOf(h) == IF h = HASHTAG THEN "," ELSE ";"

\* C5 as claimed: for every row that is not blank and every list header the
\* value is the list of the trimmed, non-empty pieces of the raw cell, in
\* order; an empty input gives the empty list.
C5_AsClaimed ==
    LoadedSheet =>
        \A k \in 1..Len(Out) : \A h \in (list_headers \cup {HASHTAG}) \cap DOMAIN Out[k] :
            /\ Out[k][h] = ListValue(TrimmedPieces(RawCell(k, h), DelimiterOf(h)))
            /\ \A n \in 1..Len(Out[k][h].items) : Out[k][h].items[n] # <<>>

\* C5 amended: the same for every list header whose column the row reaches;
\* where the row is too short to reach the column the value is the empty
\* string, not a list.
C5_ListFields ==
    LoadedSheet =>
        \A k \in 1..Len(Out) : \A h \in (list_headers \cup {HASHTAG}) \cap DOMAIN Out[k] :
            IF RowReaches(k, h)
            THEN /\ Out[k][h] = ListValue(TrimmedPieces(RawCell(k, h), DelimiterOf(h)))
                 /\ \A n \in 1..Len(Out[k][h].items) : Out[k][h].items[n] # <<>>
            ELSE Out[k][h] = StrValue(<<>>)

\* C5 witness: " a; ,b;" under a flow header and under the tag header
C5_Witness ==
    /\ LoadedSheet
    /\ Len(Out) = 1
    /\ INTRO_FLOW \in DOMAIN Out[1]
    /\ HASHTAG \in DOMAIN Out[1]
    /\ Out[1][INTRO_FLOW] = ListValue(<< <<"a">>, <<",", "b">> >>)
    /\ Out[1][HASHTAG] = ListValue(<< <<"a", ";">>, <<"b", ";">> >>)

\* C6 as claimed: an empty header row gives no records, whatever the data
\* rows under it are.
C6_AsClaimed ==
    LoadedSheet /\ InHeaders = <<>> => Out = <<>>

\* C6 amended: a sheet without any row, or with an empty header row above
\* blank rows only, gives no records and no error; under an empty header
\* row every row that is not blank still gives a record, whose only field
\* is generated_id.
C6_EmptyHeaders ==
    /\ Loaded /\ pressed_data = <<>> => Out = <<>>
    /\ LoadedSheet /\ InHeaders = <<>> =>
        /\ Len(Out) = Cardinality({i \in 1..Len(InRows) : ~IsBlank(InRows[i])})
        /\ \A k \in 1..Len(Out) :
               /\ DOMAIN Out[k] = {GENERATED_ID}
               /\ Out[k][GENERATED_ID] =
                      StrValue(GS \o NO_TIMESTAMP \o IntToStr(k - 1) \o <<"_">> \o IntToStr(k - 1))

\* C6 witness: an empty header row above a blank row and a row with a cell
C6_Witness ==
    /\ LoadedSheet
    /\ InHeaders = <<>>
    /\ Len(InRows) = 2
    /\ IsBlank(InRows[1])
    /\ Len(Out) = 1

\* the entry the download button fills the template with
Entry == google_form_records.records[selected_index + 1]

\* C7: every mapped cell gets one string: the list joined with ',' for the
\* tag field and with ';' for any other field, str(value) for a value that
\* is no list, '' for a field the record lacks; no other cell is written;
\* cutting the written string of a list at the same delimiter gives the
\* list back.
C7_FillWrites ==
    excel_data.some =>
        /\ DOMAIN excel_data.ws = {cell_mappings[j][2] : j \in 1..Len(cell_mappings)}
        /\ \A j \in 1..Len(cell_mappings) : \A m \in 1..Len(cell_mappings) :
               j # m => cell_mappings[j][2] # cell_mappings[m][2]
        /\ \A j \in 1..Len(cell_mappings) :
            LET field == cell_mappings[j][1]
                written == excel_data.ws[cell_mappings[j][2]]
            IN  IF field \notin DOMAIN Entry THEN written = <<>>
                ELSE IF Entry[field].kind = "list"
                THEN /\ written = join(DelimiterOf(field), Entry[field].items)
                     /\ TrimmedPieces(written, DelimiterOf(field)) = Entry[field].items
                ELSE IF Entry[field].kind = "int" THEN written = IntToStr(Entry[field].n)
                ELSE written = Entry[field].s

\* C7 witness: the tags ["a;", "b;"] written to M2 as "a;,b;", beside an
\* ordering field that is an int
C7_Witness ==
    /\ excel_data.some
    /\ HASHTAG \in DOMAIN Entry
    /\ Entry[HASHTAG].items = << <<"a", ";">>, <<"b", ";">> >>
    /\ excel_data.ws["M2"] = <<"a", ";", ",", "b", ";">>
    /\ UNIT_ORDER \in DOMAIN Entry
    /\ Entry[UNIT_ORDER].kind = "int"

\* C8: a fill that fails returns None: TemplateMissing when the template is
\* not there, WriteError with its cause when loading, writing or saving
\* fails, and then no download is offered; bytes are returned only by a
\* fill without fault, with every mapped cell written.
C8_NoBufferOnFailure ==
    /\ fill_fault = "missing" =>
           fill_error = "TemplateMissing" /\ excel_data = None /\ ~download_offered
    /\ fill_fault \in {"load", "write", "save"} =>
           fill_error = "WriteError" /\ fill_cause = fill_fault
               /\ excel_data = None /\ ~download_offered
    /\ (excel_data.some \/ download_offered) =>
           /\ fill_fault = "none"
           /\ fill_error = "none"
           /\ excel_data.some /\ download_offered
           /\ \A j \in 1..Len(cell_mappings) :
                  excel_data.ws[cell_mappings[j][2]] = cell_text(cell_mappings[j][1], Entry)

\* C8 witness: a fill whose last assignment to a cell failed
C8_Witness ==
    /\ fill_fault = "write"
    /\ fill_error = "WriteError"
    /\ template_exists

\* C9: the records a reload returns are the normalization of the sheet as
\* it was at the press, whatever was memoized before and however young it
\* was; a load that aborts leaves nothing memoized.
C9_ReloadIsFresh ==
    /\ Loaded => sheet_lesson_data_records = normalize(pressed_data)
    /\ load_outcome \in {"ConfigMissing", "SourceReadError"} => cache = NoEntry

\* C9 witness: a reload pressed while an entry younger than ttl, of other
\* records, was memoized
C9_Witness ==
    /\ Loaded
    /\ pressed_cache.has
    /\ cache.at - pressed_cache.at < ttl
    /\ pressed_cache.value # sheet_lesson_data_records
    /\ pressed_cache.value # <<>>

\* C10: after a reload that completed, the records held in the session are
\* the records that reload returned.
C10_SessionIsLastLoad ==
    Loaded =>
        (IF google_form_records.set THEN google_form_records.records ELSE <<>>)
            = sheet_lesson_data_records

=============================================================================
